---- MODULE Spec2Model ----
(***************************************************************************)
(* Process supervisor of the LibreOffice MCP server                        *)
(* (src-tauri/mcp-servers/libreoffice/main.py).                            *)
(*                                                                         *)
(* The supervisor is one Python thread.  Its control state is a stack of   *)
(* frames (head = the frame that runs next): signal handlers run on top of *)
(* whatever they interrupt, cleanup_processes is called from four places.  *)
(* Child processes and processes that were already there live in `procs`.  *)
(*                                                                         *)
(* Besides a run of main() (Spec, SpecFair) the module describes callers   *)
(* of single functions: start_office, start_helper and cleanup_processes   *)
(* (SpecCalls), the two path resolvers (SpecResolve), the location of      *)
(* helper.py (SpecLocate), send_command_to_helper of tests/test_mcp.py,    *)
(* one call (SpecForward) and overlapping calls (SpecOverlap), and two     *)
(* supervisor runs inside start_office at the same time (SpecPeers).       *)
(***************************************************************************)
EXTENDS Integers, Sequences, FiniteSets, TLC

(* ------------------------------ bounds -------------------------------- *)
\* signals delivered to the supervisor in one run
MaxSignals == 1
\* candidate paths the filesystem reports as existing
MaxExisting == 1
\* direct calls made by a caller other than main() (specification SpecCalls)
MaxCalls == 3
\* paths that exist when a resolver is called on its own (SpecResolve)
MaxResolveExisting == 2
\* characters of a helper response's message (SpecForward)
MaxMsgLen == 2

(* ------------------------- program constants -------------------------- *)
None == 0
OfficePort == 2002
HelperPort == 8765

\* sock.recv(16384): the size of the receive buffer, scaled down to the
\* message lengths above and counted in the units of JsonDumps
RecvBuf == 5

Platforms == {"Windows", "Linux", "Darwin"}
Roles == {"office", "helper"}

WindowsOfficePaths ==
  << "C:\\Program Files\\Collabora Office\\program\\soffice.exe",
     "C:\\Program Files (x86)\\Collabora Office\\program\\soffice.exe",
     "C:\\Program Files\\LibreOffice\\program\\soffice.exe" >>

LinuxOfficePaths ==
  << "/usr/bin/coolwsd",
     "/usr/bin/collaboraoffice",
     "/opt/collaboraoffice/program/soffice",
     "/usr/lib/collaboraoffice/program/soffice" >>

WindowsPythonPaths ==
  << "C:\\Program Files\\Collabora Office\\program\\python.exe",
     "C:\\Program Files (x86)\\Collabora Office\\program\\python.exe",
     "C:\\Program Files\\LibreOffice\\program\\python.exe" >>

\* sys.executable, the interpreter that runs the supervisor
SysExecutable == "sys.executable"

Range(s) == {s[i] : i \in 1..Len(s)}

\* the candidate paths that may exist on a machine of the given platform:
\* the Windows ones on Windows, the Unix ones elsewhere
PathsOf(plat) ==
  IF plat = "Windows" THEN Range(WindowsOfficePaths) \cup Range(WindowsPythonPaths)
  ELSE Range(LinuxOfficePaths)

Port(role) == IF role = "office" THEN OfficePort ELSE HelperPort

\* the ports a caller passes to start_office(port)
Ports == {OfficePort, 8100}

(* ------------------------------ state --------------------------------- *)
VARIABLES
  platform,        \* platform.system()
  stack,           \* frames of the supervisor thread, head runs next
  phase,           \* "main" | "atexit" | "exited" | "killed"
  exitCode,        \* "none" | "0" | "1" | "SIGINT" | "SIGTERM"
  atexitReg,       \* cleanup_processes is registered with atexit
  handlers,        \* signals for which signal_handler is installed
  office_process,  \* global handle (a pid of procs, or None)
  helper_process,  \* global handle (a pid of procs, or None)
  procs,           \* every office/helper process, pid = index
  local,           \* locals of the running start_* call
  sleeps,          \* time.sleep(3) calls executed, per role
  server,          \* the MCP server child of subprocess.run
  signals,         \* signals delivered so far
  calls,           \* direct calls made so far (SpecCalls)
  call,            \* a resolver called on its own (SpecResolve)
  loc,             \* two launches of the helper script (SpecLocate)
  fwd,             \* a call of send_command_to_helper (SpecForward)
  ovl,             \* overlapping calls of send_command_to_helper (SpecOverlap)
  peer,            \* two supervisor runs in start_office (SpecPeers)
  frm,             \* a forwarding call and the helper's reader (SpecFraming)
  hist             \* history of the run, read by the properties only

vars == << platform, stack, phase, exitCode, atexitReg, handlers,
           office_process, helper_process, procs, local, sleeps, server,
           signals, calls, call, loc, fwd, ovl, peer, frm,
           hist >>

\* what no statement of the supervisor changes
env == << platform, call, loc, fwd, ovl, peer, frm >>

(* ------------------------- pure functions ----------------------------- *)
\* str.lower() on the values platform.system() returns
Lower(s) ==
  CASE s = "Windows" -> "windows"
    [] s = "Linux"   -> "linux"
    [] s = "Darwin"  -> "darwin"
    [] OTHER         -> s

\* mutant of FirstExisting: the loop keeps the last existing path
RECURSIVE LastExisting(_, _, _)
LastExisting(paths, exist, dflt) ==
  IF paths = << >> THEN dflt
  ELSE LET rest == LastExisting(Tail(paths), exist, "")
       IN IF rest # "" THEN rest
          ELSE IF Head(paths) \in exist THEN Head(paths) ELSE dflt

\* for path in possible_paths: if os.path.exists(path): return path
RECURSIVE FirstExisting(_, _, _)
FirstExisting(paths, exist, dflt) ==
  IF paths = << >> THEN dflt
  ELSE IF Head(paths) \in exist THEN Head(paths)
  ELSE FirstExisting(Tail(paths), exist, dflt)

\* the os.path.exists calls that loop makes, in order
RECURSIVE ExistsCalls(_, _)
ExistsCalls(paths, exist) ==
  IF paths = << >> THEN << >>
  ELSE IF Head(paths) \in exist THEN << Head(paths) >>
  ELSE << Head(paths) >> \o ExistsCalls(Tail(paths), exist)

\* mutant of HasCandidates: only Windows is told apart (else: for elif:)
HasCandidatesElse(system) == system # ""

\* mutant of HasCandidates: every other system is treated like Linux
HasCandidatesAlways(system) == TRUE

\* if system == "windows": ... elif system == "linux": ... else: raise OSError
HasCandidates(system) == system \in {"windows", "linux"}

\* get_office_path(): [exc, path, checked]; exc is "none" when a path is
\* returned, checked lists the os.path.exists calls made
get_office_path(plat, exist) ==
  LET system == Lower(plat) IN
  IF ~HasCandidates(system)
    THEN [exc |-> "OSError", path |-> "", checked |-> << >>]
    ELSE LET possible_paths == IF system = "windows" THEN WindowsOfficePaths
                                                      ELSE LinuxOfficePaths
             found == FirstExisting(possible_paths, exist, "")
             checked == ExistsCalls(possible_paths, exist)
         IN IF found = ""
              THEN [exc |-> "FileNotFoundError", path |-> "", checked |-> checked]
              ELSE [exc |-> "none", path |-> found, checked |-> checked]

\* mutant of get_python_path: no fallback to the running interpreter
get_python_path_bundled_only(plat, exist) ==
  FirstExisting(WindowsPythonPaths, exist, "")

\* get_python_path()
get_python_path(plat, exist) ==
  LET system == Lower(plat) IN
  IF system = "windows"
    THEN FirstExisting(WindowsPythonPaths, exist, SysExecutable)
    ELSE SysExecutable

(* ------------------------- processes and ports ------------------------ *)
Pids == 1..Len(procs)

NewProc(role, own, listening) ==
  [role |-> role, port |-> Port(role), own |-> own,
   alive |-> TRUE, listening |-> listening, termReqs |-> 0, kills |-> 0]

\* some live process accepts connections on the port
PortBound(port) ==
  \E p \in Pids : procs[p].port = port /\ procs[p].alive /\ procs[p].listening

\* mutant of is_port_in_use: the probe never sees a listener
is_port_in_use_never(port) == FALSE

\* is_port_in_use(port): connect_ex(("localhost", port)) == 0
is_port_in_use(port) == PortBound(port)

\* mutant of poll_is_None: the liveness guard of cleanup_processes is missing
poll_always_None(h) == TRUE

\* handle.poll() is None
poll_is_None(h) == procs[h].alive

\* mutant of Handle: shutdown aims at whoever listens on the role's port
HandleOrListener(role) ==
  IF \E p \in Pids : procs[p].role = role /\ procs[p].alive /\ procs[p].listening
    THEN CHOOSE p \in Pids : procs[p].role = role /\ procs[p].alive /\ procs[p].listening
    ELSE IF role = "office" THEN office_process ELSE helper_process

\* the module-wide handle of a role
Handle(role) == IF role = "office" THEN office_process ELSE helper_process

OwnPids(role) == {p \in Pids : procs[p].role = role /\ procs[p].own}

(* ------------------------------ frames -------------------------------- *)
\* a frame: its position, and for cleanup_processes the index into
\* CleanupOrder, for start_office/start_helper the role
\* and the port: start_office(port=2002), and the 8765 of start_helper
F(pc) == [pc |-> pc, i |-> 0, role |-> "-", port |-> None]
CF(pc, i) == [pc |-> pc, i |-> i, role |-> "-", port |-> None]
SF(pc, role) == [pc |-> pc, i |-> 0, role |-> role, port |-> Port(role)]

Top == Head(stack)
Bottom == stack[Len(stack)]
Running == phase \in {"main", "atexit"} /\ stack # << >>
At(pc) == Running /\ Top.pc = pc
InStack(pcs) == \E k \in 1..Len(stack) : stack[k].pc \in pcs

StartupPcs == {"probe", "resolve", "spawn", "assign", "sleep", "s_run", "s_wait"}
CleanupPcs == {"c_check", "c_term", "c_wait", "c_kill"}
TryPcs == {"m_office", "m_helper", "m_mcp"}

\* mutant of CleanupOrder: the office process is shut down first
CleanupOrderOfficeFirst == << "office", "helper" >>

\* the order in which cleanup_processes visits the handles
CleanupOrder == << "helper", "office" >>

\* mutant of After: main() goes from start_office() to start_mcp_server()
AfterSkipHelper(pc) ==
  CASE pc = "m_office"  -> "m_mcp"
    [] pc = "m_helper"  -> "m_mcp"
    [] pc = "m_mcp"     -> "m_end"
    [] pc = "x_exc"     -> "x_exit1"
    [] pc = "x_kbd"     -> "x_exit0"
    [] pc = "g_enter"   -> "g_exit"
    [] pc = "a_cleanup" -> "a_done"
    [] pc = "t_call"    -> "t_idle"
    [] OTHER            -> pc

\* where a caller continues when its callee returns
After(pc) ==
  CASE pc = "m_office"  -> "m_helper"
    [] pc = "m_helper"  -> "m_mcp"
    [] pc = "m_mcp"     -> "m_end"
    [] pc = "x_exc"     -> "x_exit1"
    [] pc = "x_kbd"     -> "x_exit0"
    [] pc = "g_enter"   -> "g_exit"
    [] pc = "a_cleanup" -> "a_done"
    [] pc = "t_call"    -> "t_idle"
    [] OTHER            -> pc

\* the callee's frame is popped and the caller moves on
Return(stk) ==
  LET rest == Tail(stk)
  IN  IF rest = << >> THEN << >>
      ELSE << [Head(rest) EXCEPT !.pc = After(Head(rest).pc)] >> \o Tail(rest)

Goto(pc) == << [Top EXCEPT !.pc = pc] >> \o Tail(stack)
Call(frame) == << frame >> \o stack

NoLocal == [path |-> "", popen |-> None, probed |-> None, argv |-> << >>]

\* the orchestration state of section 4.4, read off the control state
OrchState ==
  IF phase \in {"exited", "killed"} THEN "EXITED"
  ELSE IF phase = "atexit" \/ stack = << >> THEN "SHUTTING_DOWN"
  ELSE IF InStack(CleanupPcs \cup {"g_enter", "g_exit", "x_exc", "x_kbd",
                                     "x_exit0", "x_exit1", "m_end"})
    THEN "SHUTTING_DOWN"
  ELSE CASE Bottom.pc \in {"m_atexit", "m_sigint", "m_sigterm"} -> "INIT"
         [] Bottom.pc = "m_office" -> "OFFICE_STARTING"
         [] Bottom.pc = "m_helper" -> "HELPER_STARTING"
         [] Bottom.pc = "m_mcp"    -> "SERVING"
         [] OTHER                  -> "CALLER"

(* ------------------------------ Init ---------------------------------- *)
\* the processes that are already listening when the run begins
ExternalProcs(S) ==
  (IF "office" \in S THEN << NewProc("office", FALSE, TRUE) >> ELSE << >>)
  \o (IF "helper" \in S THEN << NewProc("helper", FALSE, TRUE) >> ELSE << >>)

\* what os.path.exists may answer: at most MaxExisting candidates exist
ExistingChoices(plat) ==
  {S \in SUBSET PathsOf(plat) : Cardinality(S) <= MaxExisting}

\* cleanupDone: completed calls of cleanup_processes; begun: startup steps
\* main() has called; excRaised: the step an Exception came out of;
\* kbdAt: the orchestration state in which KeyboardInterrupt was raised;
\* sigHandled: signal_handler has been entered; intServing: it was entered
\* for SIGINT in state SERVING; killedAt: where an unhandled signal ended
\* the run; exitVia: what ended the main phase; quietCall: cleanup_processes
\* has been called after a completed call, every owned handle having exited;
\* served: start_mcp_server() has returned; foundBound: the roles whose
\* port is_port_in_use found bound; sigInStart: signal_handler has been
\* entered while start_office or start_helper was running; cleanupCalls:
\* calls of cleanup_processes made so far
\* no resolver has been called on its own
NoCall == [fn |-> "none", exist |-> {}, ret |-> [exc |-> "none", path |-> "", checked |-> << >>]]

\* no launch of the helper script is being compared
NoLoc == [install |-> << >>, way |-> "none", runs |-> << >>]

\* no command is being forwarded
NoFwd == [pc |-> "none"]

\* no calls are overlapping
NoOvl == [calls |-> << >>]

\* no second supervisor run is looked at
NoPeer == [runs |-> << >>]

\* no forwarding call is looked at together with its reader
NoFrm == [pc |-> "none"]

NoHist ==
  [cleanupDone |-> 0, begun |-> {}, excRaised |-> "none", kbdAt |-> "none",
   sigHandled |-> FALSE, intServing |-> FALSE, killedAt |-> "none",
   exitVia |-> "none", quietCall |-> FALSE, served |-> FALSE,
   foundBound |-> {}, sigInStart |-> FALSE, cleanupCalls |-> 0]

InitCommon ==
  /\ platform \in Platforms
  /\ phase = "main"
  /\ exitCode = "none"
  /\ atexitReg = FALSE
  /\ handlers = {}
  /\ office_process = None
  /\ helper_process = None
  /\ \E S \in SUBSET Roles : procs = ExternalProcs(S)
  /\ local = NoLocal
  /\ sleeps = [r \in Roles |-> 0]
  /\ server = "none"
  /\ signals = 0
  /\ calls = 0
  /\ call = NoCall
  /\ loc = NoLoc
  /\ fwd = NoFwd
  /\ ovl = NoOvl
  /\ peer = NoPeer
  /\ frm = NoFrm
  /\ hist = NoHist

\* python main.py: main() is about to run
Init == InitCommon /\ stack = << F("m_atexit") >>

(* --------------------------- main(), lines 153-173 -------------------- *)
\* mutant of MainRegisterAtexit: the atexit hook is not registered
MainSkipAtexit ==
  /\ At("m_atexit")
  /\ stack' = Goto("m_sigint")
  /\ UNCHANGED << env, phase, exitCode, atexitReg, handlers, office_process,
                  helper_process, procs, local, sleeps, server, signals, calls, hist >>

\* atexit.register(cleanup_processes)
MainRegisterAtexit ==
  /\ At("m_atexit")
  /\ atexitReg' = TRUE
  /\ stack' = Goto("m_sigint")
  /\ UNCHANGED << env, phase, exitCode, handlers, office_process, helper_process,
                  procs, local, sleeps, server, signals, calls, hist >>

\* signal.signal(signal.SIGINT, signal_handler)
MainRegisterSigint ==
  /\ At("m_sigint")
  /\ handlers' = handlers \cup {"SIGINT"}
  /\ stack' = Goto("m_sigterm")
  /\ UNCHANGED << env, phase, exitCode, atexitReg, office_process, helper_process,
                  procs, local, sleeps, server, signals, calls, hist >>

\* if platform.system() != "Windows": signal.signal(signal.SIGTERM, signal_handler)
MainRegisterSigterm ==
  /\ At("m_sigterm")
  /\ handlers' = IF platform # "Windows" THEN handlers \cup {"SIGTERM"} ELSE handlers
  /\ stack' = Goto("m_office")
  /\ UNCHANGED << env, phase, exitCode, atexitReg, office_process, helper_process,
                  procs, local, sleeps, server, signals, calls, hist >>

\* the first frame of a startup step
Entry(step) ==
  CASE step = "m_office" -> SF("probe", "office")
    [] step = "m_helper" -> SF("probe", "helper")
    [] step = "m_mcp"    -> F("s_run")

\* try: start_office(); start_helper(); start_mcp_server()  -- the three calls
MainCall ==
  /\ Running /\ Len(stack) = 1 /\ Top.pc \in TryPcs
  /\ stack' = Call(Entry(Top.pc))
  /\ hist' = [hist EXCEPT !.begun = @ \cup {Top.pc}]
  /\ UNCHANGED << env, phase, exitCode, atexitReg, handlers, office_process,
                  helper_process, procs, local, sleeps, server, signals, calls >>

\* what the interpreter runs once the main module is done or SystemExit is raised
FinalizeStack == << F(IF atexitReg THEN "a_call" ELSE "a_done") >>

\* subprocess.run kills its child when an exception passes through it
ServerAfterUnwind ==
  IF server = "running" /\ InStack({"s_wait"}) THEN "killed" ELSE server

\* mutant of MainReturn: the process ends without running the exit hooks
MainReturnNoHooks ==
  /\ At("m_end")
  /\ phase' = "exited"
  /\ exitCode' = "0"
  /\ stack' = << >>
  /\ hist' = [hist EXCEPT !.exitVia = "return"]
  /\ UNCHANGED << env, atexitReg, handlers, office_process, helper_process, procs,
                  local, sleeps, server, signals, calls >>

\* main() returns after start_mcp_server() returned
MainReturn ==
  /\ At("m_end")
  /\ phase' = "atexit"
  /\ exitCode' = "0"
  /\ stack' = FinalizeStack
  /\ hist' = [hist EXCEPT !.exitVia = "return"]
  /\ UNCHANGED << env, atexitReg, handlers, office_process, helper_process, procs,
                  local, sleeps, server, signals, calls >>

\* the frames left when an Exception leaves a startup step: main's
\* `except Exception` clause, or the direct caller
RaiseStack == IF Bottom.pc \in TryPcs THEN << F("x_exc") >>
                                     ELSE << F(After(Bottom.pc)) >>

Raised == [hist EXCEPT !.excRaised = IF Bottom.pc \in TryPcs THEN Bottom.pc ELSE @]

\* the history once cleanup_processes is called in the current state
CleanupCalled ==
  [hist EXCEPT !.quietCall =
     @ \/ ( /\ hist.cleanupDone >= 1
            /\ \A r \in Roles : Handle(r) = None \/ ~procs[Handle(r)].alive ),
               !.cleanupCalls = @ + 1]

\* mutant of ExceptClause: the except clauses go straight to sys.exit
ExceptClauseNoCleanup ==
  /\ Running /\ Top.pc \in {"x_exc", "x_kbd"}
  /\ stack' = Goto(After(Top.pc))
  /\ UNCHANGED << env, phase, exitCode, atexitReg, handlers, office_process,
                  helper_process, procs, local, sleeps, server, signals, calls, hist >>

\* except KeyboardInterrupt: / except Exception: ... cleanup_processes()
ExceptClause ==
  /\ Running /\ Top.pc \in {"x_exc", "x_kbd"}
  /\ stack' = Call(CF("c_check", 1))
  /\ hist' = CleanupCalled
  /\ UNCHANGED << env, phase, exitCode, atexitReg, handlers, office_process,
                  helper_process, procs, local, sleeps, server, signals, calls >>

(* ------------------ start_office / start_helper, lines 102-137 -------- *)
\* if not is_port_in_use(port): ... else: print(already running)
StartProbe ==
  /\ At("probe")
  /\ stack' = IF is_port_in_use(Top.port) THEN Return(stack) ELSE Goto("resolve")
  /\ local' = IF is_port_in_use(Top.port) THEN NoLocal
                                          ELSE [NoLocal EXCEPT !.probed = Top.port]
  /\ hist' = IF is_port_in_use(Top.port)
               THEN [hist EXCEPT !.foundBound = @ \cup {Top.role}]
               ELSE hist
  /\ UNCHANGED << env, phase, exitCode, atexitReg, handlers, office_process,
                  helper_process, procs, sleeps, server, signals, calls >>

\* soffice_path = get_office_path()  /  python_path = get_python_path()
StartResolve ==
  /\ At("resolve")
  /\ \E exist \in ExistingChoices(platform) :
     LET res == IF Top.role = "office"
                  THEN get_office_path(platform, exist)
                  ELSE [exc |-> "none", path |-> get_python_path(platform, exist)]
     IN IF res.exc = "none"
          THEN /\ local' = [local EXCEPT !.path = res.path]
               /\ stack' = Goto("spawn")
               /\ hist' = hist
          ELSE /\ local' = NoLocal
               /\ stack' = RaiseStack
               /\ hist' = Raised
  /\ UNCHANGED << env, phase, exitCode, atexitReg, handlers, office_process,
                  helper_process, procs, sleeps, server, signals, calls >>

\* str(port) in the f-string: the decimal digits of the port
DigitChars == << "0", "1", "2", "3", "4", "5", "6", "7", "8", "9" >>
RECURSIVE Digits(_)
Digits(n) ==
  IF n < 10 THEN << DigitChars[n + 1] >>
            ELSE Digits(n \div 10) \o << DigitChars[(n % 10) + 1] >>

\* the number a run of decimal digits stands for
RECURSIVE Number(_)
Number(ds) ==
  IF ds = << >> THEN 0
  ELSE 10 * Number(SubSeq(ds, 1, Len(ds) - 1))
       + (CHOOSE d \in 0..9 : DigitChars[d + 1] = ds[Len(ds)])

\* f"--accept=socket,host=localhost,port={port};urp;": the text before the
\* port, the digits, the text after
AcceptPrefix == "--accept=socket,host=localhost,port="
AcceptFlag(port) == << AcceptPrefix >> \o Digits(port) \o << ";urp;" >>

\* mutant of OfficeArgv: the listener flag names the default port
OfficeArgvDefaultPort(soffice_path, port) ==
  << << soffice_path >>,
     << "-env:UserInstallation=file:///C:/Temp/LibreOfficeHeadlessProfile" >>,
     << "--headless" >>,
     AcceptFlag(OfficePort),
     << "--norestore" >>, << "--nodefault" >>, << "--nologo" >> >>

\* the argument list of the Popen in start_office; every argument is a
\* sequence of pieces of text
OfficeArgv(soffice_path, port) ==
  << << soffice_path >>,
     << "-env:UserInstallation=file:///C:/Temp/LibreOfficeHeadlessProfile" >>,
     << "--headless" >>,
     AcceptFlag(port),
     << "--norestore" >>, << "--nodefault" >>, << "--nologo" >> >>

\* the port named in the --accept argument of an argument list
AcceptPort(argv) ==
  LET flag == argv[CHOOSE k \in 1..Len(argv) : Head(argv[k]) = AcceptPrefix]
  IN Number(SubSeq(flag, 2, Len(flag) - 1))

\* the port the child will listen on: the office the one of its --accept
\* argument, the helper its fixed command port
ListenPort(role, argv) == IF role = "office" THEN AcceptPort(argv) ELSE HelperPort

\* subprocess.Popen([...]): the child exists, its handle is not yet stored;
\* or Popen raises OSError
StartSpawn ==
  /\ At("spawn")
  /\ \/ LET argv == IF Top.role = "office" THEN OfficeArgv(local.path, Top.port)
                                              ELSE << << local.path >>, << "helper.py" >> >>
        IN /\ procs' = Append(procs, [NewProc(Top.role, TRUE, FALSE)
                                        EXCEPT !.port = ListenPort(Top.role, argv)])
           /\ local' = [local EXCEPT !.path = "", !.popen = Len(procs) + 1,
                                     !.argv = argv]
        /\ stack' = Goto("assign")
        /\ hist' = hist
     \/ /\ procs' = procs
        /\ local' = NoLocal
        /\ stack' = RaiseStack
        /\ hist' = Raised
  /\ UNCHANGED << env, phase, exitCode, atexitReg, handlers, office_process,
                  helper_process, sleeps, server, signals, calls >>

\* mutant of AfterAssign: the post-launch delay is missing
AfterAssignNoSleep(stk) == Return(stk)

\* what follows the assignment of the handle: time.sleep(3)
AfterAssign(stk) == << [Head(stk) EXCEPT !.pc = "sleep"] >> \o Tail(stk)

\* mutant of StartAssign: the new handle is stored in both variables
StartAssignBoth ==
  /\ At("assign")
  /\ office_process' = local.popen
  /\ helper_process' = local.popen
  /\ stack' = AfterAssign(stack)
  /\ UNCHANGED << env, phase, exitCode, atexitReg, handlers, procs, local, sleeps,
                  server, signals, calls, hist >>

\* office_process = <Popen>  /  helper_process = <Popen>
StartAssign ==
  /\ At("assign")
  /\ office_process' = IF Top.role = "office" THEN local.popen ELSE office_process
  /\ helper_process' = IF Top.role = "helper" THEN local.popen ELSE helper_process
  /\ stack' = AfterAssign(stack)
  /\ UNCHANGED << env, phase, exitCode, atexitReg, handlers, procs, local, sleeps,
                  server, signals, calls, hist >>

\* time.sleep(3), then the call returns
StartSleep ==
  /\ At("sleep")
  /\ sleeps' = [sleeps EXCEPT ![Top.role] = @ + 1]
  /\ local' = NoLocal
  /\ stack' = Return(stack)
  /\ UNCHANGED << env, phase, exitCode, atexitReg, handlers, office_process,
                  helper_process, procs, server, signals, calls, hist >>

(* --------------------- start_mcp_server, lines 140-150 ---------------- *)
\* subprocess.run([...]) starts the server, or raises OSError
ServerRun ==
  /\ At("s_run")
  /\ \/ /\ server' = "running"
        /\ stack' = Goto("s_wait")
        /\ hist' = hist
     \/ /\ server' = server
        /\ stack' = RaiseStack
        /\ hist' = Raised
  /\ UNCHANGED << env, phase, exitCode, atexitReg, handlers, office_process,
                  helper_process, procs, local, sleeps, signals, calls >>

\* subprocess.run returns when the server has exited
ServerWait ==
  /\ At("s_wait")
  /\ server = "exited"
  /\ stack' = Return(stack)
  /\ hist' = [hist EXCEPT !.served = TRUE]
  /\ UNCHANGED << env, phase, exitCode, atexitReg, handlers, office_process,
                  helper_process, procs, local, sleeps, server, signals, calls >>

\* the MCP server ends on its own
ServerExit ==
  /\ Running
  /\ server = "running"
  /\ server' = "exited"
  /\ UNCHANGED << env, stack, phase, exitCode, atexitReg, handlers, office_process,
                  helper_process, procs, local, sleeps, signals, calls, hist >>

(* --------------------- cleanup_processes, lines 16-36 ----------------- *)
\* after the handle at position i: the next handle, or the function returns
CleanupNext(i) ==
  IF i < Len(CleanupOrder) THEN << CF("c_check", i + 1) >> \o Tail(stack)
                           ELSE Return(stack)

CleanupCounted(i) ==
  IF i < Len(CleanupOrder) THEN hist ELSE [hist EXCEPT !.cleanupDone = @ + 1]

\* if helper_process and helper_process.poll() is None:   (and the office one)
CleanupCheck ==
  /\ At("c_check")
  /\ LET h == Handle(CleanupOrder[Top.i])
     IN IF h # None /\ poll_is_None(h)
          THEN stack' = Goto("c_term") /\ hist' = hist
          ELSE stack' = CleanupNext(Top.i) /\ hist' = CleanupCounted(Top.i)
  /\ UNCHANGED << env, phase, exitCode, atexitReg, handlers, office_process,
                  helper_process, procs, local, sleeps, server, signals, calls >>

\* helper_process.terminate()
CleanupTerminate ==
  /\ At("c_term")
  /\ LET h == Handle(CleanupOrder[Top.i])
     IN procs' = [procs EXCEPT ![h].termReqs = @ + 1]
  /\ stack' = Goto("c_wait")
  /\ UNCHANGED << env, phase, exitCode, atexitReg, handlers, office_process,
                  helper_process, local, sleeps, server, signals, calls, hist >>

\* mutant of OnTimeoutExpired: the wait is taken up again after the timeout
OnTimeoutExpiredRetry == Goto("c_wait")

\* mutant of OnTimeoutExpired: terminate is sent again after the timeout
OnTimeoutExpiredTerminate == Goto("c_term")

\* mutant of OnTimeoutExpired: the timeout is swallowed without a kill
OnTimeoutExpiredPass == Goto("c_check")

\* except subprocess.TimeoutExpired: the handler of the timeout is entered,
\* the exception goes no further
OnTimeoutExpired == Goto("c_kill")

\* helper_process.wait(timeout=5): returns once the child is gone,
\* raises TimeoutExpired while it is still there
CleanupWait ==
  /\ At("c_wait")
  /\ LET h == Handle(CleanupOrder[Top.i])
     IN IF procs[h].alive
          THEN stack' = OnTimeoutExpired /\ hist' = hist
          ELSE stack' = CleanupNext(Top.i) /\ hist' = CleanupCounted(Top.i)
  /\ UNCHANGED << env, phase, exitCode, atexitReg, handlers, office_process,
                  helper_process, procs, local, sleeps, server, signals, calls >>

\* except subprocess.TimeoutExpired: helper_process.kill()
CleanupKill ==
  /\ At("c_kill")
  /\ LET h == Handle(CleanupOrder[Top.i])
     IN procs' = [procs EXCEPT ![h].kills = @ + 1]
  /\ stack' = CleanupNext(Top.i)
  /\ hist' = CleanupCounted(Top.i)
  /\ UNCHANGED << env, phase, exitCode, atexitReg, handlers, office_process,
                  helper_process, local, sleeps, server, signals, calls >>

(* ----------------------- signal_handler, lines 39-43 ------------------ *)
\* a signal reaches the supervisor.  With signal_handler installed the
\* handler runs on top of the interrupted frame; otherwise SIGTERM ends the
\* process at once and SIGINT raises KeyboardInterrupt outside the try block
Signal ==
  /\ Running
  /\ signals < MaxSignals
  /\ signals' = signals + 1
  /\ \E sig \in {"SIGINT", "SIGTERM"} :
       IF sig \in handlers
         THEN /\ stack' = Call(F("g_enter"))
              /\ hist' = [hist EXCEPT
                   !.sigHandled = TRUE,
                   !.intServing = @ \/ (sig = "SIGINT" /\ OrchState = "SERVING"),
                   !.sigInStart = @ \/ InStack(StartupPcs \ {"s_run", "s_wait"})]
              /\ UNCHANGED << phase, exitCode >>
         ELSE IF sig = "SIGTERM"
           THEN /\ phase' = "killed"
                /\ exitCode' = "SIGTERM"
                /\ stack' = << >>
                /\ hist' = [hist EXCEPT !.killedAt = OrchState, !.exitVia = "SIGTERM"]
           ELSE /\ phase' = "atexit"
                /\ exitCode' = "SIGINT"
                /\ stack' = FinalizeStack
                /\ hist' = [hist EXCEPT !.exitVia = "SIGINT"]
  /\ UNCHANGED << env, atexitReg, handlers, office_process, helper_process, procs,
                  local, sleeps, server, calls >>

\* print(...); cleanup_processes()
SignalHandler ==
  /\ At("g_enter")
  /\ stack' = Call(CF("c_check", 1))
  /\ hist' = CleanupCalled
  /\ UNCHANGED << env, phase, exitCode, atexitReg, handlers, office_process,
                  helper_process, procs, local, sleeps, server, signals, calls >>

\* a startup step raises KeyboardInterrupt inside the try block (lines
\* 166-169 handle it).  With signal_handler installed SIGINT no longer raises
\* it, so it comes from the step itself, as when a step is replaced by one
\* that raises; it is raised at most once, the try block being left by it
RaiseKeyboardInterrupt ==
  /\ Running /\ phase = "main"
  /\ Top.pc \in StartupPcs /\ Bottom.pc \in TryPcs
  /\ hist.kbdAt = "none"
  /\ hist' = [hist EXCEPT !.kbdAt = OrchState]
  /\ stack' = << F("x_kbd") >>
  /\ server' = ServerAfterUnwind
  /\ local' = NoLocal
  /\ UNCHANGED << env, phase, exitCode, atexitReg, handlers, office_process,
                  helper_process, procs, sleeps, signals, calls >>

(* ------------------------------ sys.exit ------------------------------ *)
\* mutant of ExitCodeOf: the signal handler exits with 1
ExitCodeOfHandlerOne(pc) == IF pc = "x_exit0" THEN "0" ELSE "1"

\* the argument of the sys.exit at lines 43, 169 and 173
ExitCodeOf(pc) == IF pc \in {"g_exit", "x_exit0"} THEN "0" ELSE "1"

ExitVia(pc) ==
  CASE pc = "g_exit"  -> "handler"
    [] pc = "x_exit0" -> "kbd"
    [] pc = "x_exit1" -> "exception"

\* sys.exit(n) raises SystemExit, which nothing in the program catches: in
\* the main phase the interpreter takes n as the exit code and runs the
\* atexit hooks; inside an atexit hook the exception only ends that hook
RaiseSystemExit ==
  /\ IF phase = "main"
       THEN /\ exitCode' = ExitCodeOf(Top.pc)
            /\ phase' = "atexit"
            /\ stack' = FinalizeStack
            /\ server' = ServerAfterUnwind
            /\ hist' = [hist EXCEPT !.exitVia = ExitVia(Top.pc)]
       ELSE /\ stack' = << F("a_done") >>
            /\ UNCHANGED << exitCode, phase, server, hist >>
  /\ local' = NoLocal
  /\ UNCHANGED << env, atexitReg, handlers, office_process, helper_process, procs,
                  sleeps, signals, calls >>

\* mutant of SysExit: signal_handler returns to the code it interrupted
SysExitHandlerReturns ==
  \/ /\ Running /\ Top.pc \in {"x_exit0", "x_exit1"}
     /\ RaiseSystemExit
  \/ /\ At("g_exit")
     /\ stack' = Tail(stack)
     /\ UNCHANGED << env, phase, exitCode, atexitReg, handlers, office_process,
                     helper_process, procs, local, sleeps, server, signals, calls, hist >>

\* sys.exit(0) in signal_handler, sys.exit(0) and sys.exit(1) in main
SysExit ==
  /\ Running /\ Top.pc \in {"g_exit", "x_exit0", "x_exit1"}
  /\ RaiseSystemExit

(* ------------------------- interpreter shutdown ----------------------- *)
\* the atexit hook: cleanup_processes()
AtexitRun ==
  /\ At("a_call")
  /\ stack' = << CF("c_check", 1), F("a_cleanup") >>
  /\ hist' = CleanupCalled
  /\ UNCHANGED << env, phase, exitCode, atexitReg, handlers, office_process,
                  helper_process, procs, local, sleeps, server, signals, calls >>

\* the process ends with the exit code settled before
Finished ==
  /\ At("a_done")
  /\ phase' = "exited"
  /\ stack' = << >>
  /\ UNCHANGED << env, exitCode, atexitReg, handlers, office_process, helper_process,
                  procs, local, sleeps, server, signals, calls, hist >>

(* ----------------------------- environment ---------------------------- *)
\* a child of this run ends (on its own, or after terminate/kill).  A
\* process that was already there stays: one that ends before the probe
\* behaves like one that never was, and later nothing looks at it
ChildExit ==
  /\ Running
  /\ \E p \in Pids :
       /\ procs[p].alive
       /\ procs[p].own
       /\ procs' = [procs EXCEPT ![p].alive = FALSE, ![p].listening = FALSE]
  /\ UNCHANGED << env, stack, phase, exitCode, atexitReg, handlers, office_process,
                  helper_process, local, sleeps, server, signals, calls, hist >>

\* a spawned process starts to listen on its port, if the port is free
ChildBind ==
  /\ Running
  /\ OrchState \in {"INIT", "OFFICE_STARTING", "HELPER_STARTING", "CALLER"}
  /\ \E p \in Pids :
       /\ procs[p].alive /\ ~procs[p].listening
       /\ ~PortBound(procs[p].port)
       /\ procs' = [procs EXCEPT ![p].listening = TRUE]
  /\ UNCHANGED << env, stack, phase, exitCode, atexitReg, handlers, office_process,
                  helper_process, local, sleeps, server, signals, calls, hist >>

(* --------------------------- specifications --------------------------- *)
Next ==
  \/ MainRegisterAtexit
  \/ MainRegisterSigint
  \/ MainRegisterSigterm
  \/ MainCall
  \/ MainReturn
  \/ ExceptClause
  \/ StartProbe
  \/ StartResolve
  \/ StartSpawn
  \/ StartAssign
  \/ StartSleep
  \/ ServerRun
  \/ ServerWait
  \/ ServerExit
  \/ CleanupCheck
  \/ CleanupTerminate
  \/ CleanupWait
  \/ CleanupKill
  \/ Signal
  \/ SignalHandler
  \/ RaiseKeyboardInterrupt
  \/ SysExit
  \/ AtexitRun
  \/ Finished
  \/ ChildExit
  \/ ChildBind

\* one run of main()
Spec == Init /\ [][Next]_vars

\* the statements of the supervisor's single thread.  The interpreter
\* executes the next statement whenever there is one to execute: every
\* statement but subprocess.run returns by itself, wait(timeout=5) included
ThreadStep ==
  \/ MainRegisterAtexit
  \/ MainRegisterSigint
  \/ MainRegisterSigterm
  \/ MainCall
  \/ MainReturn
  \/ ExceptClause
  \/ StartProbe
  \/ StartResolve
  \/ StartSpawn
  \/ StartAssign
  \/ StartSleep
  \/ ServerRun
  \/ ServerWait
  \/ CleanupCheck
  \/ CleanupTerminate
  \/ CleanupWait
  \/ CleanupKill
  \/ SignalHandler
  \/ SysExit
  \/ AtexitRun
  \/ Finished

\* one run of main() in which the thread keeps executing; children, the
\* server and signals come and go as they please
SpecFair == Spec /\ WF_vars(ThreadStep)

(* ------------------ direct callers of the module's functions ---------- *)
\* a caller other than main (the test modules import and call start_office,
\* start_helper and cleanup_processes directly) is about to make its calls
InitCalls == InitCommon /\ stack = << F("t_idle") >>

CallEntry(fn) ==
  CASE fn = "start_office"      -> SF("probe", "office")
    [] fn = "start_helper"      -> SF("probe", "helper")
    [] fn = "cleanup_processes" -> CF("c_check", 1)

\* the caller calls one of the functions; an exception returns to the caller
DirectCall ==
  /\ At("t_idle")
  /\ calls < MaxCalls
  /\ calls' = calls + 1
  /\ \E fn \in {"start_office", "start_helper", "cleanup_processes"}, port \in Ports :
       /\ stack' = << IF fn = "start_office"
                         THEN [CallEntry(fn) EXCEPT !.port = port]
                         ELSE CallEntry(fn),
                      F("t_call") >>
       /\ hist' = IF fn = "cleanup_processes" THEN CleanupCalled ELSE hist
  /\ UNCHANGED << env, phase, exitCode, atexitReg, handlers, office_process,
                  helper_process, procs, local, sleeps, server, signals >>

NextCalls ==
  \/ DirectCall
  \/ StartProbe
  \/ StartResolve
  \/ StartSpawn
  \/ StartAssign
  \/ StartSleep
  \/ CleanupCheck
  \/ CleanupTerminate
  \/ CleanupWait
  \/ CleanupKill
  \/ ChildExit
  \/ ChildBind

\* repeated direct calls, without main()
SpecCalls == InitCalls /\ [][NextCalls]_vars

(* ------------------- the resolvers called on their own ---------------- *)
\* a caller is about to call get_office_path() or get_python_path(); the
\* filesystem it meets: at most MaxResolveExisting of the candidate paths
\* exist, on whatever platform
InitResolve ==
  /\ platform \in Platforms
  /\ \E S \in SUBSET (Range(WindowsOfficePaths) \cup Range(LinuxOfficePaths)
                      \cup Range(WindowsPythonPaths)) :
       /\ Cardinality(S) <= MaxResolveExisting
       /\ call = [NoCall EXCEPT !.exist = S]
  /\ loc = NoLoc
  /\ fwd = NoFwd
  /\ ovl = NoOvl
  /\ peer = NoPeer
  /\ frm = NoFrm
  /\ stack = << F("r_idle") >>
  /\ phase = "main"
  /\ exitCode = "none"
  /\ atexitReg = FALSE
  /\ handlers = {}
  /\ office_process = None
  /\ helper_process = None
  /\ procs = << >>
  /\ local = NoLocal
  /\ sleeps = [r \in Roles |-> 0]
  /\ server = "none"
  /\ signals = 0
  /\ calls = 0
  /\ hist = NoHist

\* path = get_office_path(), or the exception it raises
CallGetOfficePath ==
  /\ At("r_idle")
  /\ call' = [call EXCEPT !.fn = "get_office_path",
                          !.ret = get_office_path(platform, call.exist)]
  /\ stack' = << F("r_done") >>
  /\ UNCHANGED << platform, loc, fwd, ovl, peer, frm, phase, exitCode, atexitReg, handlers,
                  office_process, helper_process, procs, local, sleeps, server,
                  signals, calls, hist >>

\* path = get_python_path()
CallGetPythonPath ==
  /\ At("r_idle")
  /\ call' = [call EXCEPT !.fn = "get_python_path",
                          !.ret = [exc |-> "none",
                                   path |-> get_python_path(platform, call.exist),
                                   checked |-> IF Lower(platform) = "windows"
                                     THEN ExistsCalls(WindowsPythonPaths, call.exist)
                                     ELSE << >>]]
  /\ stack' = << F("r_done") >>
  /\ UNCHANGED << platform, loc, fwd, ovl, peer, frm, phase, exitCode, atexitReg, handlers,
                  office_process, helper_process, procs, local, sleeps, server,
                  signals, calls, hist >>

NextResolve ==
  \/ CallGetOfficePath
  \/ CallGetPythonPath

\* one call of a resolver, for every platform and filesystem
SpecResolve == InitResolve /\ [][NextResolve]_vars

(* ------------------ where start_helper finds helper.py ---------------- *)
\* a path is [abs, parts]: "/opt/app/main.py" is [abs |-> TRUE, parts |->
\* <<"opt", "app", "main.py">>], "" is [abs |-> FALSE, parts |-> << >>]
RelPath(parts) == [abs |-> FALSE, parts |-> parts]

\* os.path.dirname(p): p without its last component
dirname(p) ==
  [abs |-> p.abs,
   parts |-> IF p.parts = << >> THEN << >> ELSE SubSeq(p.parts, 1, Len(p.parts) - 1)]

\* os.path.join(a, b)
join(a, b) ==
  IF b.abs THEN b
  ELSE IF a = RelPath(<< >>) THEN b
  ELSE [abs |-> a.abs, parts |-> a.parts \o b.parts]

\* ".." steps back over the component before it, as the filesystem does
RECURSIVE Normalize(_, _)
Normalize(done, todo) ==
  IF todo = << >> THEN done
  ELSE IF Head(todo) = ".."
    THEN Normalize(IF done = << >> THEN << >> ELSE SubSeq(done, 1, Len(done) - 1),
                   Tail(todo))
    ELSE Normalize(Append(done, Head(todo)), Tail(todo))

\* the file a process with working directory cwd opens under the name p
Resolve(cwd, p) == Normalize(<< >>, IF p.abs THEN p.parts ELSE cwd \o p.parts)

RECURSIVE CommonPrefix(_, _)
CommonPrefix(a, b) ==
  IF a = << >> \/ b = << >> \/ Head(a) # Head(b) THEN 0
  ELSE 1 + CommonPrefix(Tail(a), Tail(b))

\* the relative name of directory `to` for a shell standing in `from`
Relative(from, to) ==
  LET k == CommonPrefix(from, to)
  IN [i \in 1..(Len(from) - k) |-> ".."] \o SubSeq(to, k + 1, Len(to))

\* the directories of the machine
Dirs ==
  { << >>, << "opt" >>, << "opt", "app" >>, << "home" >>, << "home", "u" >>,
    << "home", "u", "app" >> }

\* how the supervisor is started: python /abs/main.py ("absolute"), python
\* rel/main.py ("relative"), or python -c "import main; main.main()" with
\* the install directory on the module search path ("import")

\* sys.argv[0] as the interpreter sets it
ArgvZero(way, install, cwd) ==
  CASE way = "absolute" -> [abs |-> TRUE, parts |-> Append(install, "main.py")]
    [] way = "relative" -> RelPath(Append(Relative(cwd, install), "main.py"))
    [] way = "import"   -> RelPath(<< "-c" >>)

\* two runs of one installed supervisor, started the same way from two
\* working directories; neither has launched the helper yet
InitLocate ==
  /\ \E install \in { << "opt", "app" >>, << "home", "u", "app" >> },
        way \in {"absolute", "relative", "import"}, c1 \in Dirs, c2 \in Dirs :
       /\ c1 # c2
       /\ loc = [install |-> install, way |-> way,
                 runs |-> [r \in 1..2 |->
                   [cwd |-> IF r = 1 THEN c1 ELSE c2,
                    argv0 |-> ArgvZero(way, install, IF r = 1 THEN c1 ELSE c2),
                    helper_script |-> RelPath(<< >>),
                    launched |-> << >>]]]
  /\ platform = "Linux"
  /\ call = NoCall
  /\ fwd = NoFwd
  /\ ovl = NoOvl
  /\ peer = NoPeer
  /\ frm = NoFrm
  /\ stack = << F("l_idle") >>
  /\ phase = "main"
  /\ exitCode = "none"
  /\ atexitReg = FALSE
  /\ handlers = {}
  /\ office_process = None
  /\ helper_process = None
  /\ procs = << >>
  /\ local = NoLocal
  /\ sleeps = [r \in Roles |-> 0]
  /\ server = "none"
  /\ signals = 0
  /\ calls = 0
  /\ hist = NoHist

\* exe_dir = os.path.dirname(sys.argv[0]);
\* helper_script = os.path.join(exe_dir, "helper.py");
\* Popen([python_path, helper_script]): the child, which inherits the
\* working directory, opens helper_script
LocateHelper(r) ==
  /\ loc.runs[r].launched = << >>
  /\ LET exe_dir == dirname(loc.runs[r].argv0)
         helper_script == join(exe_dir, RelPath(<< "helper.py" >>))
     IN loc' = [loc EXCEPT !.runs[r].helper_script = helper_script,
                           !.runs[r].launched = Resolve(loc.runs[r].cwd, helper_script)]
  /\ UNCHANGED << platform, call, fwd, ovl, peer, frm, stack, phase, exitCode, atexitReg, handlers,
                  office_process, helper_process, procs, local, sleeps, server,
                  signals, calls, hist >>

NextLocate == \E r \in 1..2 : LocateHelper(r)

\* the helper script of two runs that differ in the working directory
SpecLocate == InitLocate /\ [][NextLocate]_vars

(* -------- send_command_to_helper, tests/test_mcp.py lines 32-41 ------- *)
\* the text of a JSON string.  A message is made of an ordinary character
\* "a" and the double quote "q", which JSON writes as backslash + quote
RECURSIVE Escape(_)
Escape(m) ==
  IF m = << >> THEN << >>
  ELSE (IF Head(m) = "q" THEN << "\\", "q" >> ELSE << Head(m) >>) \o Escape(Tail(m))

\* the string a JSON text stands for: [ok, chars]; a bare quote, a lone
\* backslash or any other character is no string text
RECURSIVE Unescape(_)
Unescape(t) ==
  IF t = << >> THEN [ok |-> TRUE, chars |-> << >>]
  ELSE IF Head(t) = "a"
    THEN LET r == Unescape(Tail(t))
         IN [ok |-> r.ok, chars |-> << "a" >> \o r.chars]
  ELSE IF Head(t) = "\\" /\ Len(t) >= 2 /\ t[2] = "q"
    THEN LET r == Unescape(Tail(Tail(t)))
         IN [ok |-> r.ok, chars |-> << "q" >> \o r.chars]
  ELSE [ok |-> FALSE, chars |-> << >>]

\* json.dumps of {"status": ..., "message": ...}: opening, the status, the
\* escaped message, closing
JsonDumps(resp) == << "{", resp.status >> \o Escape(resp.message) \o << "}" >>

\* json.loads: [exc, value]
JsonLoads(t) ==
  LET n == Len(t)
      wellFormed == /\ n >= 3
                    /\ t[1] = "{" /\ t[2] \in {"success", "error"} /\ t[n] = "}"
                    /\ Unescape(SubSeq(t, 3, n - 1)).ok
  IN IF wellFormed
       THEN [exc |-> "none",
             value |-> [status |-> t[2], message |-> Unescape(SubSeq(t, 3, n - 1)).chars]]
       ELSE [exc |-> "JSONDecodeError", value |-> [status |-> "-", message |-> << >>]]

\* commands the callers of send_command_to_helper pass (lines 286-403)
Commands == {"get_text_formatting", "get_table_info", "has_image"}

\* what the helper does with a request: it answers with a response, with
\* bytes that are no JSON, closes the connection, or resets it
NoReply == [kind |-> "none", status |-> "-", message |-> << >>]
Replies ==
  [kind : {"response"}, status : {"success", "error"},
   message : UNION { [1..n -> {"a", "q"}] : n \in 0..MaxMsgLen }]
  \cup {[NoReply EXCEPT !.kind = k] : k \in {"garbage", "close", "reset"}}

\* the bytes the helper writes
Written(reply) ==
  CASE reply.kind = "response" -> JsonDumps(reply)
    [] reply.kind = "garbage"  -> << "x", "x" >>
    [] OTHER                   -> << >>

\* mutant of recv: everything that has arrived, whatever its length
recv_all(bytes, bufsize) == bytes

\* sock.recv(bufsize): at most bufsize bytes of what has arrived
recv(bytes, bufsize) ==
  SubSeq(bytes, 1, IF Len(bytes) < bufsize THEN Len(bytes) ELSE bufsize)

\* mutant of Caught: only socket errors are caught
CaughtSocketErrors(exc) == exc \in {"ConnectionRefusedError", "ConnectionResetError"}

\* except Exception as e: every exception of the try block is one
Caught(exc) == exc \in {"ConnectionRefusedError", "ConnectionResetError",
                        "BrokenPipeError", "JSONDecodeError"}

\* an exception in the try block: return {"status": "error", "message": str(e)}
Raise(exc) ==
  IF Caught(exc)
    THEN [fwd EXCEPT !.pc = "f_done", !.outcome = "returned", !.exc = exc,
                     !.result = [status |-> "error", message |-> << exc >>]]
    ELSE [fwd EXCEPT !.pc = "f_done", !.outcome = "raised", !.exc = exc]

\* everything but the forwarding call
notFwd == << platform, call, loc, ovl, peer, frm, stack, phase, exitCode, atexitReg, handlers,
            office_process, helper_process, procs, local, sleeps, server,
            signals, calls, hist >>

\* send_command_to_helper(command) has been called; the helper listens on
\* its port, or it does not
InitForward ==
  /\ \E listening \in BOOLEAN, command \in Commands :
       fwd = [pc |-> "f_connect", listening |-> listening, command |-> command,
              request |-> << >>, reply |-> NoReply,
              wire |-> << >>, received |-> << >>, exc |-> "none",
              outcome |-> "running",
              result |-> [status |-> "-", message |-> << >>]]
  /\ platform = "Linux"
  /\ call = NoCall
  /\ loc = NoLoc
  /\ ovl = NoOvl
  /\ peer = NoPeer
  /\ frm = NoFrm
  /\ stack = << F("f_call") >>
  /\ phase = "main"
  /\ exitCode = "none"
  /\ atexitReg = FALSE
  /\ handlers = {}
  /\ office_process = None
  /\ helper_process = None
  /\ procs = << >>
  /\ local = NoLocal
  /\ sleeps = [r \in Roles |-> 0]
  /\ server = "none"
  /\ signals = 0
  /\ calls = 0
  /\ hist = NoHist

\* sock.connect(("localhost", 8765))
FwdConnect ==
  /\ fwd.pc = "f_connect"
  /\ fwd' = IF fwd.listening THEN [fwd EXCEPT !.pc = "f_send"]
                             ELSE Raise("ConnectionRefusedError")
  /\ UNCHANGED notFwd

\* sock.send(json.dumps(command).encode("utf-8")), or the connection is
\* already gone
FwdSend ==
  /\ fwd.pc = "f_send"
  /\ \/ fwd' = [fwd EXCEPT !.pc = "f_recv",
                             !.request = << "{", fwd.command, "}" >>]
     \/ fwd' = Raise("BrokenPipeError")
  /\ UNCHANGED notFwd

\* the helper deals with the request
HelperReply ==
  /\ fwd.pc = "f_recv"
  /\ fwd.request # << >>
  /\ fwd.reply = NoReply
  /\ \E reply \in Replies :
       fwd' = [fwd EXCEPT !.reply = reply, !.wire = Written(reply)]
  /\ UNCHANGED notFwd

\* response = sock.recv(16384).decode("utf-8"): blocks until the helper
\* has written, closed or reset
FwdRecv ==
  /\ fwd.pc = "f_recv"
  /\ fwd.reply # NoReply
  /\ fwd' = IF fwd.reply.kind = "reset"
              THEN Raise("ConnectionResetError")
              ELSE [fwd EXCEPT !.pc = "f_loads", !.received = recv(fwd.wire, RecvBuf)]
  /\ UNCHANGED notFwd

\* return json.loads(response)
FwdLoads ==
  /\ fwd.pc = "f_loads"
  /\ LET parsed == JsonLoads(fwd.received)
     IN fwd' = IF parsed.exc = "none"
                 THEN [fwd EXCEPT !.pc = "f_done", !.outcome = "returned",
                                  !.result = parsed.value]
                 ELSE Raise(parsed.exc)
  /\ UNCHANGED notFwd

NextForward ==
  \/ FwdConnect
  \/ FwdSend
  \/ HelperReply
  \/ FwdRecv
  \/ FwdLoads

\* one forwarding call against a helper that behaves as it likes
SpecForward == InitForward /\ [][NextForward]_vars

(* ------ overlapping calls of send_command_to_helper, lines 32-41 ------ *)
\* threads that call send_command_to_helper at the same time, each with a
\* command of its own
Callers == {"A", "B", "C"}
CommandOf(c) ==
  CASE c = "A" -> "get_text_formatting"
    [] c = "B" -> "get_table_info"
    [] OTHER   -> "has_image"

\* what the helper answers to a command
AnswerTo(command) ==
  CASE command = "get_text_formatting" -> << "a" >>
    [] command = "get_table_info"      -> << "q" >>
    [] OTHER                           -> << "a", "a" >>

\* one socket object used by every call
SharedSocket(c) == "A"

\* with socket.socket(AF_INET, SOCK_STREAM) as sock: the socket object is
\* created by the call and named after it
SocketOf(c) == c

NoConn == [users |-> {}, requests |-> << >>, answered |-> 0, inbox |-> << >>,
           closed |-> FALSE]

\* everything but the overlapping calls
notOvl == << platform, call, loc, fwd, peer, frm, stack, phase, exitCode, atexitReg,
            handlers, office_process, helper_process, procs, local, sleeps,
            server, signals, calls, hist >>

\* every caller has called send_command_to_helper(command); the helper
\* listens on its port, or it does not
InitOverlap ==
  /\ \E listening \in BOOLEAN :
       ovl = [listening |-> listening,
              calls |-> [c \in Callers |->
                 [pc |-> "o_connect", command |-> CommandOf(c), sock |-> "-",
                  received |-> << >>, exc |-> "none", outcome |-> "running",
                  result |-> [status |-> "-", message |-> << >>]]],
              conns |-> [k \in Callers |-> NoConn]]
  /\ platform = "Linux"
  /\ call = NoCall
  /\ loc = NoLoc
  /\ fwd = NoFwd
  /\ peer = NoPeer
  /\ frm = NoFrm
  /\ stack = << F("o_call") >>
  /\ phase = "main"
  /\ exitCode = "none"
  /\ atexitReg = FALSE
  /\ handlers = {}
  /\ office_process = None
  /\ helper_process = None
  /\ procs = << >>
  /\ local = NoLocal
  /\ sleeps = [r \in Roles |-> 0]
  /\ server = "none"
  /\ signals = 0
  /\ calls = 0
  /\ hist = NoHist

\* an exception in the try block of call c
OvlRaise(c, exc) ==
  IF Caught(exc)
    THEN [ovl EXCEPT !.calls[c].pc = "o_done", !.calls[c].outcome = "returned",
                     !.calls[c].exc = exc,
                     !.calls[c].result = [status |-> "error", message |-> << exc >>]]
    ELSE [ovl EXCEPT !.calls[c].pc = "o_done", !.calls[c].outcome = "raised",
                     !.calls[c].exc = exc]

\* sock = socket.socket(...); sock.connect(("localhost", 8765))
OvlConnect(c) ==
  /\ ovl.calls[c].pc = "o_connect"
  /\ LET k == SocketOf(c)
     IN ovl' = IF ovl.listening
                 THEN [ovl EXCEPT !.calls[c].pc = "o_send", !.calls[c].sock = k,
                                  !.conns[k].users = @ \cup {c}]
                 ELSE OvlRaise(c, "ConnectionRefusedError")
  /\ UNCHANGED notOvl

\* sock.send(json.dumps(command).encode())
OvlSend(c) ==
  /\ ovl.calls[c].pc = "o_send"
  /\ LET k == ovl.calls[c].sock
     IN ovl' = [ovl EXCEPT !.calls[c].pc = "o_recv",
                           !.conns[k].requests = Append(@, ovl.calls[c].command)]
  /\ UNCHANGED notOvl

\* the helper answers the next request of connection k on that connection,
\* or closes the connection
OvlHelperReply(k) ==
  /\ ovl.conns[k].answered < Len(ovl.conns[k].requests)
  /\ ~ovl.conns[k].closed
  /\ LET request == ovl.conns[k].requests[ovl.conns[k].answered + 1]
         response == [status |-> "success", message |-> AnswerTo(request)]
     IN \/ ovl' = [ovl EXCEPT !.conns[k].answered = @ + 1,
                              !.conns[k].inbox = @ \o JsonDumps(response)]
        \/ ovl' = [ovl EXCEPT !.conns[k].closed = TRUE]
  /\ UNCHANGED notOvl

\* response = sock.recv(16384).decode(): what has arrived on the call's
\* socket, up to the buffer size; nothing once the peer has closed
OvlRecv(c) ==
  /\ ovl.calls[c].pc = "o_recv"
  /\ LET k == ovl.calls[c].sock
         got == recv(ovl.conns[k].inbox, RecvBuf)
     IN /\ ovl.conns[k].inbox # << >> \/ ovl.conns[k].closed
        /\ ovl' = [ovl EXCEPT !.calls[c].pc = "o_loads", !.calls[c].received = got,
                              !.conns[k].inbox = SubSeq(@, Len(got) + 1, Len(@))]
  /\ UNCHANGED notOvl

\* return json.loads(response); the with statement closes the socket
OvlLoads(c) ==
  /\ ovl.calls[c].pc = "o_loads"
  /\ LET parsed == JsonLoads(ovl.calls[c].received)
     IN ovl' = IF parsed.exc = "none"
                 THEN [ovl EXCEPT !.calls[c].pc = "o_done",
                                  !.calls[c].outcome = "returned",
                                  !.calls[c].result = parsed.value]
                 ELSE OvlRaise(c, parsed.exc)
  /\ UNCHANGED notOvl

NextOverlap ==
  \/ \E c \in Callers : OvlConnect(c)
  \/ \E c \in Callers : OvlSend(c)
  \/ \E k \in Callers : OvlHelperReply(k)
  \/ \E c \in Callers : OvlRecv(c)
  \/ \E c \in Callers : OvlLoads(c)

\* calls of send_command_to_helper that overlap in every way
SpecOverlap == InitOverlap /\ [][NextOverlap]_vars

(* -------- two supervisor runs in start_office, lines 102-122 ---------- *)
\* two runs of the supervisor on one machine: each is inside its own call
\* of start_office(port), for the same port; procs is the machine's process
\* table, peer.runs[r].office_process the global of run r
Runs == {1, 2}

\* everything but the two runs and the process table
notPeer == << platform, call, loc, fwd, ovl, frm, stack, phase, exitCode, atexitReg,
             handlers, office_process, helper_process, local, sleeps, server,
             signals, calls, hist >>

\* both runs have called start_office(port); something may listen on the
\* default port already
InitPeers ==
  /\ \E port \in Ports :
       peer = [port |-> port,
               runs |-> [r \in Runs |->
                  [pc |-> "probe", path |-> "", popen |-> None,
                   office_process |-> None, exc |-> "none"]]]
  /\ \E S \in SUBSET {"office"} : procs = ExternalProcs(S)
  /\ platform \in Platforms
  /\ call = NoCall
  /\ loc = NoLoc
  /\ fwd = NoFwd
  /\ ovl = NoOvl
  /\ frm = NoFrm
  /\ stack = << F("p_runs") >>
  /\ phase = "main"
  /\ exitCode = "none"
  /\ atexitReg = FALSE
  /\ handlers = {}
  /\ office_process = None
  /\ helper_process = None
  /\ local = NoLocal
  /\ sleeps = [r \in Roles |-> 0]
  /\ server = "none"
  /\ signals = 0
  /\ calls = 0
  /\ hist = NoHist

\* if not is_port_in_use(port): ... else: print(already running)
PeerProbe(r) ==
  /\ peer.runs[r].pc = "probe"
  /\ peer' = [peer EXCEPT !.runs[r].pc =
                IF is_port_in_use(peer.port) THEN "done" ELSE "resolve"]
  /\ UNCHANGED << procs, notPeer >>

\* soffice_path = get_office_path()
PeerResolve(r) ==
  /\ peer.runs[r].pc = "resolve"
  /\ \E exist \in ExistingChoices(platform) :
       LET res == get_office_path(platform, exist)
       IN peer' = IF res.exc = "none"
                    THEN [peer EXCEPT !.runs[r].pc = "spawn", !.runs[r].path = res.path]
                    ELSE [peer EXCEPT !.runs[r].pc = "done", !.runs[r].exc = res.exc]
  /\ UNCHANGED << procs, notPeer >>

\* subprocess.Popen([...]): the child exists; or Popen raises OSError
PeerSpawn(r) ==
  /\ peer.runs[r].pc = "spawn"
  /\ \/ LET argv == OfficeArgv(peer.runs[r].path, peer.port)
        IN /\ procs' = Append(procs, [NewProc("office", TRUE, FALSE)
                                        EXCEPT !.port = ListenPort("office", argv)])
           /\ peer' = [peer EXCEPT !.runs[r].pc = "assign", !.runs[r].path = "",
                                   !.runs[r].popen = Len(procs) + 1]
     \/ /\ procs' = procs
        /\ peer' = [peer EXCEPT !.runs[r].pc = "done", !.runs[r].path = "",
                                !.runs[r].exc = "OSError"]
  /\ UNCHANGED notPeer

\* office_process = <Popen>
PeerAssign(r) ==
  /\ peer.runs[r].pc = "assign"
  /\ peer' = [peer EXCEPT !.runs[r].pc = "sleep",
                          !.runs[r].office_process = peer.runs[r].popen]
  /\ UNCHANGED << procs, notPeer >>

\* time.sleep(3), then the call returns
PeerSleep(r) ==
  /\ peer.runs[r].pc = "sleep"
  /\ peer' = [peer EXCEPT !.runs[r].pc = "done"]
  /\ UNCHANGED << procs, notPeer >>

\* a spawned office process starts to listen on its port, if the port is free
PeerChildBind ==
  /\ \E p \in Pids :
       /\ procs[p].own /\ procs[p].alive /\ ~procs[p].listening
       /\ ~PortBound(procs[p].port)
       /\ procs' = [procs EXCEPT ![p].listening = TRUE]
  /\ UNCHANGED << peer, notPeer >>

\* a spawned office process ends
PeerChildExit ==
  /\ \E p \in Pids :
       /\ procs[p].own /\ procs[p].alive
       /\ procs' = [procs EXCEPT ![p].alive = FALSE, ![p].listening = FALSE]
  /\ UNCHANGED << peer, notPeer >>

NextPeers ==
  \/ \E r \in Runs : PeerProbe(r)
  \/ \E r \in Runs : PeerResolve(r)
  \/ \E r \in Runs : PeerSpawn(r)
  \/ \E r \in Runs : PeerAssign(r)
  \/ \E r \in Runs : PeerSleep(r)
  \/ PeerChildBind
  \/ PeerChildExit

\* two supervisor runs that execute start_office at the same time
SpecPeers == InitPeers /\ [][NextPeers]_vars

(* --- send_command_to_helper and the helper's reader, lines 32-41 ------ *)
\* One call of send_command_to_helper together with the side of the helper
\* that reads the request.  The connection is two byte streams, toHelper and
\* toFwd; fwdEnd and helperEnd say whether each side still holds its socket.
\* The helper reads until a read returns no more bytes, which a stream does
\* only once the other side has closed.

\* everything but the call and the helper's reader
notFrm == << platform, call, loc, fwd, ovl, peer, stack, phase, exitCode, atexitReg,
            handlers, office_process, helper_process, procs, local, sleeps,
            server, signals, calls, hist >>

\* send_command_to_helper(command) has been called; the helper listens on
\* its port, or it does not
InitFraming ==
  /\ \E listening \in BOOLEAN, command \in Commands :
       frm = [pc |-> "f_connect", hpc |-> "h_accept",
              listening |-> listening, command |-> command,
              toHelper |-> << >>, got |-> << >>, toFwd |-> << >>,
              fwdEnd |-> "open", helperEnd |-> "open",
              received |-> << >>, exc |-> "none", outcome |-> "running",
              result |-> [status |-> "-", message |-> << >>]]
  /\ platform = "Linux"
  /\ call = NoCall
  /\ loc = NoLoc
  /\ fwd = NoFwd
  /\ ovl = NoOvl
  /\ peer = NoPeer
  /\ stack = << F("q_call") >>
  /\ phase = "main"
  /\ exitCode = "none"
  /\ atexitReg = FALSE
  /\ handlers = {}
  /\ office_process = None
  /\ helper_process = None
  /\ procs = << >>
  /\ local = NoLocal
  /\ sleeps = [r \in Roles |-> 0]
  /\ server = "none"
  /\ signals = 0
  /\ calls = 0
  /\ hist = NoHist

\* an exception in the try block: the with statement closes the socket and
\* the except clause returns {"status": "error", "message": str(e)}
FrmRaise(exc) ==
  IF Caught(exc)
    THEN [frm EXCEPT !.pc = "f_done", !.fwdEnd = "closed", !.outcome = "returned",
                     !.exc = exc,
                     !.result = [status |-> "error", message |-> << exc >>]]
    ELSE [frm EXCEPT !.pc = "f_done", !.fwdEnd = "closed", !.outcome = "raised",
                     !.exc = exc]

\* sock.connect(("localhost", 8765))
FrmConnect ==
  /\ frm.pc = "f_connect"
  /\ frm' = IF frm.listening THEN [frm EXCEPT !.pc = "f_send"]
                             ELSE FrmRaise("ConnectionRefusedError")
  /\ UNCHANGED notFrm

\* sock.send(json.dumps(command).encode("utf-8")): one write, of as many
\* bytes of the request as the socket takes (send, not sendall; the count it
\* returns is not looked at); the socket stays open in both directions
FrmSend ==
  /\ frm.pc = "f_send"
  /\ LET request == << "{", frm.command, "}" >>
     IN IF frm.helperEnd = "reset"
          THEN frm' = FrmRaise("BrokenPipeError")
          ELSE \E n \in 1..Len(request) :
                 frm' = [frm EXCEPT !.pc = "f_recv",
                                    !.toHelper = @ \o SubSeq(request, 1, n)]
  /\ UNCHANGED notFrm

\* response = sock.recv(16384).decode("utf-8"): no timeout is set on the
\* socket, so the call blocks until bytes have arrived or the helper's end
\* is closed or reset
FrmRecv ==
  /\ frm.pc = "f_recv"
  /\ frm.toFwd # << >> \/ frm.helperEnd # "open"
  /\ frm' = IF frm.toFwd = << >> /\ frm.helperEnd = "reset"
              THEN FrmRaise("ConnectionResetError")
              ELSE LET bytes == recv(frm.toFwd, RecvBuf)
                   IN [frm EXCEPT !.pc = "f_loads", !.received = bytes,
                                  !.toFwd = SubSeq(@, Len(bytes) + 1, Len(@))]
  /\ UNCHANGED notFrm

\* return json.loads(response); leaving the with block closes the socket
FrmLoads ==
  /\ frm.pc = "f_loads"
  /\ LET parsed == JsonLoads(frm.received)
     IN frm' = IF parsed.exc = "none"
                 THEN [frm EXCEPT !.pc = "f_done", !.fwdEnd = "closed",
                                  !.outcome = "returned", !.result = parsed.value]
                 ELSE FrmRaise(parsed.exc)
  /\ UNCHANGED notFrm

\* the helper accepts the connection
FrmHelperAccept ==
  /\ frm.hpc = "h_accept"
  /\ frm.listening /\ frm.pc # "f_connect"
  /\ frm' = [frm EXCEPT !.hpc = "h_read"]
  /\ UNCHANGED notFrm

\* the helper reads: some of the bytes that have arrived, and it goes on
\* reading; or no more bytes, the forwarder's end being closed, and the
\* request is complete
FrmHelperRead ==
  /\ frm.hpc = "h_read"
  /\ \/ /\ frm.toHelper # << >>
        /\ \E n \in 1..Len(frm.toHelper) :
             frm' = [frm EXCEPT !.got = @ \o SubSeq(frm.toHelper, 1, n),
                                !.toHelper = SubSeq(@, n + 1, Len(@))]
     \/ /\ frm.toHelper = << >>
        /\ frm.fwdEnd = "closed"
        /\ frm' = [frm EXCEPT !.hpc = "h_write"]
  /\ UNCHANGED notFrm

\* the helper answers the completed request and closes the connection
FrmHelperWrite ==
  /\ frm.hpc = "h_write"
  /\ LET response ==
           IF Len(frm.got) = 3 /\ frm.got[1] = "{" /\ frm.got[3] = "}"
             THEN [status |-> "success", message |-> AnswerTo(frm.got[2])]
             ELSE [status |-> "error", message |-> << >>]
     IN frm' = [frm EXCEPT !.hpc = "h_done", !.helperEnd = "closed",
                           !.toFwd = IF frm.fwdEnd = "open"
                                       THEN @ \o JsonDumps(response) ELSE @]
  /\ UNCHANGED notFrm

\* the helper gives the connection up while reading: it exits, or is killed
FrmHelperDrop ==
  /\ frm.hpc = "h_read"
  /\ \E how \in {"closed", "reset"} :
       frm' = [frm EXCEPT !.hpc = "h_done", !.helperEnd = how]
  /\ UNCHANGED notFrm

\* the process that makes the call exits while the call is in flight: the
\* call is abandoned and its socket is closed
FrmAbandon ==
  /\ frm.pc \in {"f_send", "f_recv", "f_loads"}
  /\ frm' = [frm EXCEPT !.pc = "f_gone", !.fwdEnd = "closed"]
  /\ UNCHANGED notFrm

\* the statements of send_command_to_helper
FrmStep ==
  \/ FrmConnect
  \/ FrmSend
  \/ FrmRecv
  \/ FrmLoads

\* the statements of the helper's reader
FrmHelperStep ==
  \/ FrmHelperAccept
  \/ FrmHelperRead
  \/ FrmHelperWrite

NextFraming ==
  \/ FrmConnect
  \/ FrmSend
  \/ FrmRecv
  \/ FrmLoads
  \/ FrmHelperAccept
  \/ FrmHelperRead
  \/ FrmHelperWrite
  \/ FrmHelperDrop
  \/ FrmAbandon

\* a forwarding call and the helper's reader: each side executes its next
\* statement whenever that statement can proceed; the helper gives up a
\* connection, and the caller's process exits, only if something makes them
SpecFraming ==
  /\ InitFraming
  /\ [][NextFraming]_vars
  /\ WF_vars(FrmStep)
  /\ WF_vars(FrmHelperStep)

(* ============================== properties ============================ *)
InStart(role) ==
  \E k \in 1..Len(stack) : /\ stack[k].pc \in {"probe", "resolve", "spawn", "assign", "sleep"}
    /\ stack[k].role = role
Spawned(role) == Cardinality(OwnPids(role))
TermReqs == [p \in Pids |-> procs[p].termReqs]
Kills == [p \in Pids |-> procs[p].kills]

\* C1: whenever start_office or start_helper probes its port while the
\* port is bound, that step returns from the call: no process is spawned, no
\* handle is stored and the post-launch delay is not executed.
C1_IdempotentLaunch ==
  [][ ( /\ At("probe")
        /\ PortBound(Top.port)
        /\ stack' \in {Return(stack), Goto("resolve")} )
      => ( /\ stack' = Return(stack)
           /\ procs' = procs
           /\ sleeps' = sleeps
           /\ office_process' = office_process
           /\ helper_process' = helper_process ) ]_vars

\* start_office has returned to main() with the office port bound by a
\* process that was already there: nothing spawned, no delay
C1_Witness ==
  /\ phase = "main" /\ stack = << F("m_helper") >>
  /\ PortBound(OfficePort)
  /\ Spawned("office") = 0
  /\ sleeps["office"] = 0

\* C2: no process that this run did not spawn ever receives a terminate or
\* a kill from it.
C2_OnlyOwnTerminated ==
  \A p \in Pids : ~procs[p].own => procs[p].termReqs = 0 /\ procs[p].kills = 0

\* the run has ended after terminating its own helper, while the office
\* process it found on the port is still there and untouched
C2_Witness ==
  /\ phase = "exited"
  /\ office_process = None
  /\ helper_process # None /\ procs[helper_process].termReqs >= 1
  /\ \E p \in Pids : /\ procs[p].role = "office" /\ ~procs[p].own
                     /\ procs[p].alive /\ procs[p].termReqs = 0

\* C3: whenever a terminate request is issued to the office process, an
\* owned helper that is still alive has already received its terminate
\* request and, its bounded wait having timed out, its kill.
C3_HelperBeforeOffice ==
  [][ ( /\ office_process # None
        /\ Len(procs') = Len(procs)
        /\ procs'[office_process].termReqs > procs[office_process].termReqs )
      => ( \/ helper_process = None
           \/ ~procs[helper_process].alive
           \/ /\ procs[helper_process].termReqs >= 1
              /\ procs[helper_process].kills >= 1 ) ]_vars

\* both processes owned; the helper was terminated and, after the timeout,
\* killed; the office process has just been asked to terminate
C3_Witness ==
  /\ At("c_wait") /\ CleanupOrder[Top.i] = "office"
  /\ helper_process # None /\ office_process # None
  /\ procs[helper_process].termReqs = 1 /\ procs[helper_process].kills = 1
  /\ procs[office_process].termReqs = 1

\* C4: a run that ends by main() returning, by an exception or
\* KeyboardInterrupt of a startup step, or by signal_handler has completed
\* cleanup_processes at least once when the process exits.
C4_CleanupOnEveryExit ==
  (phase = "exited" /\ hist.exitVia \in {"return", "exception", "kbd", "handler"})
    => hist.cleanupDone >= 1

\* main() returned normally and cleanup ran from the atexit hook
C4_Witness ==
  /\ phase = "exited"
  /\ hist.exitVia = "return"
  /\ ~hist.sigHandled
  /\ hist.cleanupDone = 1

\* C5 (as claimed): once a startup step has raised an Exception, no later
\* startup step is called and the run exits with code 1 after cleanup.
C5_ExceptionExitsOne ==
  /\ (hist.excRaised = "m_office") => hist.begun = {"m_office"}
  /\ (hist.excRaised = "m_helper") => hist.begun = {"m_office", "m_helper"}
  /\ (hist.excRaised # "none" /\ phase = "exited")
       => (exitCode = "1" /\ hist.cleanupDone >= 1)

\* C6: a SIGINT handled in state SERVING, or a KeyboardInterrupt raised in
\* state SERVING, ends in exit code 0 after cleanup_processes has run.
C6_InterruptExitsZero ==
  ((hist.intServing \/ hist.kbdAt = "SERVING") /\ phase = "exited")
    => (exitCode = "0" /\ hist.cleanupDone >= 1)

\* SIGINT arrived through the handler while the server was running
C6_Witness ==
  /\ phase = "exited"
  /\ hist.intServing
  /\ server = "killed"
  /\ exitCode = "0"

C8_SecondCleanupQuiet ==
  [][ hist.quietCall =>
        (Len(procs') = Len(procs) => (TermReqs' = TermReqs /\ Kills' = Kills)) ]_vars

\* cleanup_processes ran from the except clause and again from the atexit
\* hook, the second time over two owned, exited processes; each process was
\* asked to terminate exactly once
C8_Witness ==
  /\ phase = "exited"
  /\ hist.quietCall
  /\ hist.cleanupDone = 2
  /\ ~hist.sigHandled
  /\ office_process # None /\ helper_process # None
  /\ procs[office_process].termReqs = 1 /\ procs[helper_process].termReqs = 1

Rank(st) ==
  CASE st = "INIT"            -> 1
    [] st = "OFFICE_STARTING" -> 2
    [] st = "HELPER_STARTING" -> 3
    [] st = "SERVING"         -> 4
    [] st = "SHUTTING_DOWN"   -> 5
    [] st = "EXITED"          -> 6

\* a step has returned, its delay included, before the next one is called
Sequential ==
  /\ "m_helper" \in hist.begun =>
       /\ "m_office" \in hist.begun
       /\ ~InStart("office")
       /\ Spawned("office") = sleeps["office"]
  /\ "m_mcp" \in hist.begun =>
       /\ "m_helper" \in hist.begun
       /\ ~InStart("helper")
       /\ Spawned("helper") = sleeps["helper"]

\* C9: the orchestration state never moves backwards and never skips one
\* of INIT, OFFICE_STARTING, HELPER_STARTING, SERVING; start_helper is
\* called only after start_office has returned with its delay executed, and
\* start_mcp_server only after start_helper has.
C9_SequentialStartup ==
  [][ /\ Rank(OrchState') >= Rank(OrchState)
      /\ (Rank(OrchState') <= 4 => Rank(OrchState') <= Rank(OrchState) + 1)
      /\ Sequential' ]_vars

\* the run is serving after having spawned, and waited for, both processes
C9_Witness ==
  /\ OrchState = "SERVING" /\ server = "running"
  /\ Spawned("office") = 1 /\ Spawned("helper") = 1
  /\ sleeps["office"] = 1 /\ sleeps["helper"] = 1

\* the handle the running cleanup_processes frame is working on
Current == Handle(CleanupOrder[Top.i])

\* a step taken by the running frame itself, not by an arriving signal
FrameStep == stack' # stack /\ signals' = signals

\* C11: cleanup_processes issues a kill to a process if and only if that
\* process is owned, was asked to terminate and was still there when the
\* bounded wait ended; the wait ends in the kill or in the next statement
\* of cleanup_processes, never in an exception leaving the function.
C11_KillIffTimeout ==
  [][ /\ (At("c_wait") /\ FrameStep) =>
           IF procs[Current].alive
             THEN Top'.pc = "c_kill" /\ Tail(stack') = Tail(stack)
             ELSE stack' = CleanupNext(Top.i)
      /\ (At("c_kill") /\ FrameStep) =>
           /\ procs'[Current].kills = procs[Current].kills + 1
           /\ stack' = CleanupNext(Top.i)
      /\ (Len(procs') = Len(procs) /\ Kills' # Kills) =>
           /\ At("c_kill")
           /\ procs[Current].own /\ procs[Current].termReqs >= 1
           /\ \A p \in Pids \ {Current} : procs'[p].kills = procs[p].kills
      /\ (Running' /\ Top'.pc = "c_kill" /\ ~At("c_kill")) =>
           (At("c_wait") /\ procs[Current].alive) ]_vars

\* the office process ignored its terminate request and was killed, the
\* helper had exited in time and was not; cleanup_processes has returned
C11_Witness ==
  /\ hist.cleanupDone >= 1
  /\ office_process # None /\ helper_process # None
  /\ procs[office_process].termReqs = 1 /\ procs[office_process].kills = 1
  /\ procs[helper_process].termReqs = 1 /\ procs[helper_process].kills = 0

\* C12: once cleanup_processes has begun, the run goes on to EXITED,
\* whatever the owned processes do or fail to do.
C12_CleanupReachesExited ==
  (Running /\ InStack(CleanupPcs)) ~> (OrchState = "EXITED")

\* the run has exited although the office process is still there after
\* both its terminate request and its kill
C12_Witness ==
  /\ phase = "exited"
  /\ office_process # None
  /\ procs[office_process].alive
  /\ procs[office_process].termReqs >= 1 /\ procs[office_process].kills >= 1

\* the first element of list l that is in set S, "" when there is none
FirstIn(l, S) ==
  IF \E i \in 1..Len(l) : l[i] \in S
    THEN l[CHOOSE i \in 1..Len(l) : l[i] \in S /\ \A j \in 1..(i - 1) : l[j] \notin S]
    ELSE ""

OfficeList == [Windows |-> WindowsOfficePaths, Linux |-> LinuxOfficePaths]

\* C13: on Windows and on Linux, whatever paths exist, get_office_path
\* returns the first path of the platform's candidate list that exists and
\* raises FileNotFoundError when none of them exists.
C13_FirstExistingOfficePath ==
  (call.fn = "get_office_path" /\ platform \in {"Windows", "Linux"}) =>
    LET first == FirstIn(OfficeList[platform], call.exist)
    IN IF first # ""
         THEN call.ret.exc = "none" /\ call.ret.path = first
         ELSE call.ret.exc = "FileNotFoundError"

\* two Linux candidates exist, the second and the fourth of the list; the
\* second was returned
C13_Witness ==
  /\ call.fn = "get_office_path" /\ platform = "Linux"
  /\ call.exist = {LinuxOfficePaths[2], LinuxOfficePaths[4]}
  /\ call.ret.path = LinuxOfficePaths[2]

\* C14: on a platform other than Windows and Linux get_office_path raises
\* OSError and has asked the filesystem about no path.
C14_UnsupportedRaisesUnprobed ==
  (call.fn = "get_office_path" /\ platform \notin {"Windows", "Linux"}) =>
    (call.ret.exc = "OSError" /\ call.ret.checked = << >>)

\* get_office_path raised OSError on Darwin although a Linux candidate exists
C14_Witness ==
  /\ call.fn = "get_office_path" /\ platform = "Darwin"
  /\ LinuxOfficePaths[1] \in call.exist
  /\ call.ret.exc = "OSError"

\* C17: get_python_path never raises; on Windows it returns the first
\* bundled interpreter of the candidate list that exists, sys.executable
\* when none exists; on every other platform it returns sys.executable.
C17_PythonPath ==
  call.fn = "get_python_path" =>
    /\ call.ret.exc = "none"
    /\ call.ret.path =
         IF platform = "Windows" /\ FirstIn(WindowsPythonPaths, call.exist) # ""
           THEN FirstIn(WindowsPythonPaths, call.exist)
           ELSE SysExecutable

\* on Windows no bundled interpreter exists (an office executable does):
\* the running interpreter was returned
C17_Witness ==
  /\ call.fn = "get_python_path" /\ platform = "Windows"
  /\ call.exist = {WindowsOfficePaths[1]}
  /\ call.ret.path = SysExecutable

\* C15 (as claimed): on a platform other than Windows and Linux the run
\* never reaches SERVING and, left alone by signals and KeyboardInterrupt,
\* exits with code 1, whatever the ports' state.
C15_UnsupportedNeverServes ==
  platform \notin {"Windows", "Linux"} =>
    /\ OrchState # "SERVING"
    /\ (phase = "exited" /\ signals = 0 /\ hist.kbdAt = "none") => exitCode = "1"

\* C15 (amended): on a platform other than Windows and Linux, with the
\* office port not bound, start_office raises: nothing is spawned, neither
\* start_helper nor start_mcp_server is called, SERVING is never reached,
\* and a run that no signal and no KeyboardInterrupt cut short exits with
\* code 1 out of the except clause.
C15_UnsupportedFatalWhenLaunching ==
  (platform \notin {"Windows", "Linux"} /\ ~PortBound(OfficePort)) =>
    /\ OrchState \notin {"HELPER_STARTING", "SERVING"}
    /\ hist.begun \subseteq {"m_office"}
    /\ \A r \in Roles : Spawned(r) = 0
    /\ (phase = "exited" /\ signals = 0 /\ hist.kbdAt = "none") =>
         (exitCode = "1" /\ hist.excRaised = "m_office" /\ hist.cleanupDone >= 1)

\* Darwin, office port free, helper port bound by a process that was
\* there: the run has exited with code 1 from start_office
C15_Witness ==
  /\ platform = "Darwin" /\ phase = "exited" /\ exitCode = "1"
  /\ ~PortBound(OfficePort) /\ PortBound(HelperPort)
  /\ hist.excRaised = "m_office" /\ signals = 0

\* a startup step has raised after this run spawned the office process, and
\* sys.exit(1) has been executed
FailedAfterOfficeSpawn ==
  exitCode = "1" /\ hist.excRaised # "none" /\ Spawned("office") >= 1

\* C16 (as claimed): when a startup step has failed after the office
\* process was spawned and the exit code is 1, the office process has
\* received a terminate request.
C16_OfficeTerminatedOnFailure ==
  FailedAfterOfficeSpawn => \A p \in OwnPids("office") : procs[p].termReqs >= 1

\* C16 (amended): when a startup step has failed after the office process
\* was spawned, the office process has, by the time sys.exit(1) is executed,
\* either exited on its own or received a terminate request; cleanup_processes
\* sends that request whenever its poll finds the office process running.
C16_RunningOfficeTerminatedOnFailure ==
  [][ /\ FailedAfterOfficeSpawn' =>
           \A p \in OwnPids("office") : procs'[p].termReqs >= 1 \/ ~procs'[p].alive
      /\ ( /\ At("c_check") /\ FrameStep
           /\ CleanupOrder[Top.i] = "office"
           /\ Current # None /\ procs[Current].alive )
         => (Running' /\ Top'.pc = "c_term")
      /\ (At("c_term") /\ FrameStep)
         => procs'[Current].termReqs = procs[Current].termReqs + 1 ]_vars

\* the helper launch raised; the office process, still running, was asked
\* to terminate before the run exited with code 1
C16_Witness ==
  /\ phase = "exited" /\ exitCode = "1"
  /\ hist.excRaised = "m_helper"
  /\ office_process # None /\ helper_process = None
  /\ procs[office_process].termReqs = 1

\* C18 (as claimed): two runs of the installed supervisor that differ only
\* in the working directory launch the same helper script file, the one in
\* the supervisor's install directory, however the supervisor was started.
C18_HelperScriptIndependentOfCwd ==
  (loc.way # "none" /\ \A r \in 1..2 : loc.runs[r].launched # << >>) =>
    /\ loc.runs[1].launched = loc.runs[2].launched
    /\ loc.runs[1].launched = Append(loc.install, "helper.py")

\* the call has returned or raised
FwdDone == fwd.pc = "f_done"

\* C19 (as claimed): when the helper answers {status: s, message: m}, s
\* being "success" or "error", the forwarding call returns status s with
\* message m unchanged, for every message m.
C19_ResponsePassesThrough ==
  (FwdDone /\ fwd.reply.kind = "response") =>
    /\ fwd.outcome = "returned"
    /\ fwd.result = [status |-> fwd.reply.status, message |-> fwd.reply.message]

\* C20: connection refused, connection reset, a broken connection and a
\* response that is no JSON (garbage, nothing at all) never leave the
\* forwarding call as an exception: the call returns status "error" with
\* the text of the exception as message.
C20_TransportFailureReturnsError ==
  FwdDone =>
    /\ fwd.outcome = "returned"
    /\ (~fwd.listening \/ fwd.reply.kind \in {"garbage", "close", "reset"})
         => fwd.result.status = "error"
    /\ fwd.exc # "none"
         => fwd.result = [status |-> "error", message |-> << fwd.exc >>]

\* the helper answered with bytes that are no JSON; the call returned the
\* decoder's complaint as an error result
C20_Witness ==
  /\ FwdDone /\ fwd.outcome = "returned"
  /\ fwd.reply.kind = "garbage"
  /\ fwd.result = [status |-> "error", message |-> << "JSONDecodeError" >>]

\* C21: overlapping forwarding calls never share a connection: every
\* connection is used by one call and carries one request and at most one
\* response, and a call that gets a response gets the answer to its own
\* command.
C21_CallsAreIsolated ==
  /\ \A k \in Callers :
       /\ Cardinality(ovl.conns[k].users) <= 1
       /\ Len(ovl.conns[k].requests) <= 1
       /\ ovl.conns[k].answered <= 1
  /\ \A c, d \in Callers :
       (c # d /\ ovl.calls[c].sock # "-") => ovl.calls[c].sock # ovl.calls[d].sock
  /\ \A c \in Callers :
       ovl.calls[c].received \in
         {<< >>, JsonDumps([status |-> "success",
                            message |-> AnswerTo(ovl.calls[c].command)])}
  /\ \A c \in Callers :
       (ovl.calls[c].pc = "o_done" /\ ovl.calls[c].exc = "none") =>
         /\ ovl.calls[c].outcome = "returned"
         /\ ovl.calls[c].result =
              [status |-> "success", message |-> AnswerTo(ovl.calls[c].command)]

\* two calls are in flight at once, each holding the response it has read
\* from its connection, after a third has returned its own answer
C21_Witness ==
  /\ ovl.calls["A"].pc = "o_done" /\ ovl.calls["A"].exc = "none"
  /\ ovl.calls["B"].pc = "o_loads" /\ ovl.calls["B"].received # << >>
  /\ ovl.calls["C"].pc = "o_loads" /\ ovl.calls["C"].received # << >>

\* C22: once start_mcp_server() has returned, the run ends with exit code
\* 0 after a completed cleanup_processes, and every process it spawned has
\* exited or has been asked to terminate.
C22_ServingReturnShutsDown ==
  (hist.served /\ phase = "exited") =>
    /\ exitCode = "0"
    /\ hist.cleanupDone >= 1
    /\ \A p \in Pids : procs[p].own => (~procs[p].alive \/ procs[p].termReqs >= 1)

\* the server returned, main() returned, and the atexit hook terminated the
\* two processes of this run, both still running
C22_Witness ==
  /\ hist.served /\ phase = "exited" /\ hist.exitVia = "return"
  /\ ~hist.sigHandled
  /\ Spawned("office") = 1 /\ Spawned("helper") = 1
  /\ \A p \in Pids : procs[p].own => (procs[p].alive /\ procs[p].termReqs = 1)

\* C23 (as claimed): a response longer than the read buffer is cut and
\* handed on without an error: the call returns what json.loads made of the
\* cut text and no exception was raised on the way.
C23_LongResponseHandedOn ==
  (FwdDone /\ fwd.reply.kind = "response" /\ Len(fwd.wire) > RecvBuf) =>
    (fwd.outcome = "returned" /\ fwd.exc = "none")

\* C23 (amended): a response longer than the read buffer is cut at the
\* buffer bound with no check that it is complete; json.loads rejects the
\* cut text and the call returns the error-shaped result of its except
\* clause, carrying the decoder's diagnostic and nothing of the response.
C23_LongResponseCutThenDecodeError ==
  (FwdDone /\ fwd.reply.kind = "response" /\ Len(fwd.wire) > RecvBuf) =>
    /\ fwd.received = SubSeq(fwd.wire, 1, RecvBuf)
    /\ fwd.outcome = "returned"
    /\ fwd.exc = "JSONDecodeError"
    /\ fwd.result = [status |-> "error", message |-> << "JSONDecodeError" >>]

\* the helper answered success with a message whose text is one unit longer
\* than the buffer, and the call has returned
C23_Witness ==
  /\ FwdDone
  /\ fwd.reply.kind = "response" /\ fwd.reply.status = "success"
  /\ Len(fwd.wire) = RecvBuf + 1

\* C24: the owned handles change in one step only, the assignment that
\* follows a successful Popen in start_office or start_helper: that step
\* stores the process just spawned in the handle of the call's own role and
\* leaves the other handle; a call that finds its port bound, or whose
\* resolver or Popen raises, never reaches that step.
C24_HandleChangesOnlyOnOwnSpawn ==
  [][ /\ (office_process' # office_process \/ helper_process' # helper_process) =>
           /\ At("assign")
           /\ local.popen \in Pids
           /\ procs[local.popen].own /\ procs[local.popen].role = Top.role
           /\ Top.role = "office" =>
                (office_process' = local.popen /\ helper_process' = helper_process)
           /\ Top.role = "helper" =>
                (helper_process' = local.popen /\ office_process' = office_process)
      /\ (Running /\ Top.pc \in {"probe", "resolve", "spawn"}) =>
           (office_process' = office_process /\ helper_process' = helper_process)
    ]_vars

\* both roles have been spawned by direct calls, and a later start_office
\* that found its port bound has left the two handles as they were
C24_Witness ==
  /\ At("t_idle") /\ calls = MaxCalls
  /\ "office" \in hist.foundBound
  /\ office_process # None /\ helper_process # None
  /\ procs[office_process].role = "office" /\ procs[helper_process].role = "helper"

\* C25: when start_office(port) has spawned the office process, the
\* --accept argument it passed is the one written for the port it probed,
\* the port read back from that argument is the probed port and is the port
\* the child is set to listen on, and the argument list holds --headless,
\* --norestore, --nodefault and --nologo.
C25_AcceptFlagNamesProbedPort ==
  (local.argv # << >> /\ local.popen \in Pids /\ procs[local.popen].role = "office") =>
    /\ AcceptFlag(local.probed) \in Range(local.argv)
    /\ AcceptPort(local.argv) = local.probed
    /\ procs[local.popen].port = local.probed
    /\ { << "--headless" >>, << "--norestore" >>, << "--nodefault" >>,
         << "--nologo" >> } \subseteq Range(local.argv)

\* start_office(8100) has spawned the office process
C25_Witness ==
  /\ At("assign") /\ Top.role = "office" /\ Top.port = 8100
  /\ local.argv # << >>
  /\ local.probed = 8100
  /\ procs[local.popen].port = 8100

\* C26 (as claimed): in a run in which signal_handler was entered during
\* start_office or start_helper, no process spawned by the run is still
\* running at exit without ever having been asked to terminate.
C26_SpawnedChildAskedToTerminate ==
  (phase = "exited" /\ hist.sigInStart) =>
    \A p \in Pids : (procs[p].own /\ procs[p].alive) => procs[p].termReqs >= 1

\* C27 (as claimed): a run in which a startup step has raised an Exception
\* ends with exit code 1, whatever signal arrives afterwards.
C27_ExitCodeOneAfterException ==
  (hist.excRaised # "none" /\ phase = "exited") => exitCode = "1"

\* C28 (as claimed): over a whole run no process of the run is asked to
\* terminate more than once or killed more than once.
C28_AtMostOneTerminateAndKill ==
  \A p \in Pids : procs[p].own => (procs[p].termReqs <= 1 /\ procs[p].kills <= 1)

\* C28 (amended): a process of the run is asked to terminate at most once
\* for each call of cleanup_processes made so far, and is killed only after
\* a terminate request, at most once for each of them; a process the run
\* does not own is never asked.
C28_OneTerminatePerCleanupCall ==
  \A p \in Pids :
    /\ procs[p].termReqs <= hist.cleanupCalls
    /\ procs[p].kills <= procs[p].termReqs
    /\ ~procs[p].own => procs[p].termReqs = 0

\* signal_handler re-entered cleanup_processes while an earlier call was
\* waiting on the helper process: the helper has been asked to terminate
\* twice
C28_Witness ==
  /\ hist.sigHandled
  /\ hist.cleanupCalls >= 2
  /\ helper_process # None
  /\ procs[helper_process].termReqs = 2
  /\ InStack({"c_wait"}) /\ InStack({"g_enter", "g_exit"})

\* C29 (as claimed): of two runs that execute start_office for the same
\* port at the same time, at most one spawns an office process.
C29_AtMostOneRunSpawns ==
  Cardinality({r \in Runs : peer.runs[r].popen # None}) <= 1

\* C30 (as claimed): at the step in which main() calls start_mcp_server,
\* the office port and the helper port are both bound by a listening
\* process.
C30_PortsBoundAtServing ==
  [][ ("m_mcp" \notin hist.begun /\ "m_mcp" \in hist'.begun) =>
        (PortBound(OfficePort) /\ PortBound(HelperPort)) ]_vars

\* C30 (amended): once main() has called start_mcp_server, each of the two
\* roles either had its port found bound by the probe, and then the run
\* spawned nothing for it, or was spawned once by this run, stored in its
\* handle, and followed by the fixed delay.
C30_ProbedOrSpawnedAndDelayed ==
  ("m_mcp" \in hist.begun) =>
    \A role \in Roles :
      \/ /\ role \in hist.foundBound
         /\ Spawned(role) = 0 /\ sleeps[role] = 0
         /\ Handle(role) = None
      \/ /\ role \notin hist.foundBound
         /\ Spawned(role) = 1 /\ sleeps[role] = 1
         /\ Handle(role) \in OwnPids(role)

\* the server is running although the helper this run spawned, and waited
\* three seconds for, is alive and not listening on its port
C30_Witness ==
  /\ "m_mcp" \in hist.begun /\ server = "running"
  /\ Spawned("helper") = 1 /\ sleeps["helper"] = 1
  /\ procs[helper_process].alive
  /\ ~PortBound(HelperPort)

\* C31 (as claimed): a call of send_command_to_helper whose request has
\* been written in full, which has not returned and whose process has not
\* exited, is never stuck together with the helper: the forwarder or the
\* helper's reader always has a statement that can proceed, so the call goes
\* on until it returns.
C31_NeverWaitOnEachOther ==
  ( /\ frm.pc \in {"f_recv", "f_loads"}
    /\ Len(frm.got) + Len(frm.toHelper) = 3 )
  => ENABLED (FrmStep \/ FrmHelperStep)

\* C32 (as claimed): in every step that sends a terminate request to an
\* office process, no helper process is alive, be it one this run spawned or
\* one that was already listening on the helper port.
C32_NoHelperAliveAtOfficeTerminate ==
  [][ (\E p \in Pids : /\ procs[p].role = "office"
                       /\ procs'[p].termReqs > procs[p].termReqs)
      => \A q \in Pids : procs[q].role = "helper" => ~procs[q].alive ]_vars

\* C10 (as claimed): however often start_office and start_helper are
\* called, at most one process is ever spawned per role.
C10_AtMostOneSpawn ==
  \A r \in Roles : Spawned(r) <= 1

====
